---------------------------- MODULE Spec2Model ----------------------------
(***************************************************************************)
(* A model of the dstchecklist scraping pipeline:                          *)
(*   scraping/scrape_boss_urls.py    URL canonicalizer and category crawl  *)
(*   scraping/scrape_boss_images.py  image URL normalizer and resolver     *)
(*   scraping/update_boss_urls.py    name reconciler                       *)
(*                                                                         *)
(* Strings are sequences of atoms; the string a sequence stands for is the *)
(* concatenation of its atoms.  Among the inputs of one component no two   *)
(* atom sequences spell the same string, and every delimiter the code      *)
(* looks for there ("/wiki/", "/", "?", "#", ":", "%", "File:", " ", ...)  *)
(* is an atom of its own, so two sequences are equal exactly when their    *)
(* strings are.                                                            *)
(***************************************************************************)
EXTENDS Integers, Sequences, FiniteSets, TLC

VARIABLES
    \* normalize_fandom_url applied once and twice
    cHref, cOut, cOut2, cPc,
    \* normalize_image_url applied once and twice
    nRaw, nOut, nOut2, nPc,
    \* pick_best_image_url applied to a parsed page
    pSoup, pResult, pPc,
    \* scrape_boss_images.main: the input list, the loop's position, the
    \* requests issued for the current page, each tier's candidate, the
    \* image-list response with the titles kept from it and the one chosen,
    \* the chosen candidate, the saved count, the output directory, what
    \* became of each page, the exit status (-1 while running)
    urlsFileExists, urls, idx, pc, reqLog, origSource, listResp, imageTitles,
    preferred, infoUrl, imgUrl, total, files, outcomes, status,
    \* scrape_boss_urls.main: the site's listing pages, the loop's position,
    \* the generator's yielded set and the next-link of the page it holds, the
    \* url it yielded last, the accumulated urls, the lines written, the exit
    \* status (-1 while running); and, for the properties, the urls yielded
    \* so far in order and whether a fetch has failed
    web, kPc, yielded, nextLink, pageUrl, allUrls, sortedUrls, kStatus, yieldLog,
    fetchFailed,
    \* update_boss_urls.main: the lines of boss_urls.txt, the header and the
    \* rows of bosses.csv as read, and as written
    rLines, rHeader, rRows, rOutHeader, rOutRows, rPc

canonVars == <<cHref, cOut, cOut2, cPc>>
normVars == <<nRaw, nOut, nOut2, nPc>>
pickVars == <<pSoup, pResult, pPc>>
imageVars ==
    <<urlsFileExists, urls, idx, pc, reqLog, origSource, listResp, imageTitles,
      preferred, infoUrl, imgUrl, total, files, outcomes, status>>
crawlVars ==
    <<web, kPc, yielded, nextLink, pageUrl, allUrls, sortedUrls, kStatus, yieldLog,
      fetchFailed>>
reconcileVars == <<rLines, rHeader, rRows, rOutHeader, rOutRows, rPc>>
vars == <<canonVars, normVars, pickVars, imageVars, crawlVars, reconcileVars>>

---------------------------------------------------------------------------
(* Bounds of the model *)

\* longest title part (in atoms) of an href given to normalize_fandom_url
MaxTail == 3
\* most path segments of a raw image URL given to normalize_image_url
MaxSegs == 4
\* most lines of boss_urls.txt in an image run
MaxUrls == 2
\* most image titles in one page of an image-list response
MaxImages == 2
\* most lines of boss_urls.txt, and most rows of bosses.csv, in a reconciliation
MaxLines == 2
MaxRows == 2

---------------------------------------------------------------------------
(* Python values *)

\* Python's None, apart from the empty string <<>>
NoneVal == <<"<None>">>

\* `not x` for x a string or None
Falsy(x) == x = NoneVal \/ x = <<>>

\* the atoms of a sequence
Range(s) == {s[i] : i \in 1..Len(s)}

\* the sequences over S of length at most n
SeqUpTo(S, n) == UNION {[1..k -> S] : k \in 0..n}

\* the atoms of s that are in S, in order
RECURSIVE Keep(_, _)
Keep(s, S) ==
    IF s = <<>> THEN <<>>
    ELSE (IF s[1] \in S THEN <<s[1]>> ELSE <<>>) \o Keep(Tail(s), S)

\* the atoms of s that are not in S, in order
RECURSIVE Without(_, _)
Without(s, S) ==
    IF s = <<>> THEN <<>>
    ELSE (IF s[1] \in S THEN <<>> ELSE <<s[1]>>) \o Without(Tail(s), S)

\* s[from..] (1-based), empty when from is past the end
Drop(s, from) == SubSeq(s, from, Len(s))

\* the least index of s holding an atom of S, or 0
IndexOf(s, S) ==
    IF \E i \in 1..Len(s) : s[i] \in S
    THEN CHOOSE i \in 1..Len(s) : s[i] \in S /\ \A j \in 1..(i - 1) : s[j] \notin S
    ELSE 0

---------------------------------------------------------------------------
(* urllib.parse on atom sequences *)

SchemeAtoms == {"https:", "http:", "ftp:", "data:"}
SiteNetloc == "//dontstarve.fandom.com"
CdnNetloc == "//static.wikia.nocookie.net"
NetlocAtoms == {SiteNetloc, "//other-host.example", CdnNetloc, "//example.com"}

\* urlparse(url): scheme, then netloc, then the fragment is cut at the first
\* "#", then the query at the first "?" of what is left.  "" stands for an
\* absent scheme or netloc.
UrlParse(s) ==
    LET scheme == IF s # <<>> /\ s[1] \in SchemeAtoms THEN s[1] ELSE ""
        r1 == IF scheme = "" THEN s ELSE Tail(s)
        netloc == IF r1 # <<>> /\ r1[1] \in NetlocAtoms THEN r1[1] ELSE ""
        r2 == IF netloc = "" THEN r1 ELSE Tail(r1)
        h == IndexOf(r2, {"#"})
        r3 == IF h = 0 THEN r2 ELSE SubSeq(r2, 1, h - 1)
        q == IndexOf(r3, {"?"})
    IN  [scheme |-> scheme,
         netloc |-> netloc,
         path |-> IF q = 0 THEN r3 ELSE SubSeq(r3, 1, q - 1),
         query |-> IF q = 0 THEN <<>> ELSE Drop(r3, q + 1),
         fragment |-> IF h = 0 THEN <<>> ELSE Drop(r2, h + 1)]

\* urlunparse(parts): an empty query or fragment leaves no "?" or "#"
UrlUnparse(p) ==
    (IF p.scheme = "" THEN <<>> ELSE <<p.scheme>>)
    \o (IF p.netloc = "" THEN <<>> ELSE <<p.netloc>>)
    \o p.path
    \o (IF p.query = <<>> THEN <<>> ELSE <<"?">> \o p.query)
    \o (IF p.fragment = <<>> THEN <<>> ELSE <<"#">> \o p.fragment)

\* urldefrag(url)[0]: the url is rebuilt only when it holds a "#"
UrlDefrag(s) ==
    IF IndexOf(s, {"#"}) = 0 THEN s
    ELSE UrlUnparse([UrlParse(s) EXCEPT !.fragment = <<>>])

\* urljoin(base, url) for a url that is empty, absolute, protocol-relative
\* ("//host/...") or path-absolute ("/..."): the forms the model's hrefs take
UrlJoin(base, url) ==
    IF url = <<>> THEN base
    ELSE LET b == UrlParse(base)
             u == UrlParse(url)
             scheme == IF u.scheme = "" THEN b.scheme ELSE u.scheme
         IN  IF scheme # b.scheme THEN url
             ELSE IF u.netloc # "" THEN UrlUnparse([u EXCEPT !.scheme = scheme])
             ELSE UrlUnparse([u EXCEPT !.scheme = scheme, !.netloc = b.netloc])

\* the two hex digits of an escape, and the character it decodes to
HexPairs == {"3A", "23", "3F", "25"}
Decoded(h) ==
    CASE h = "3A" -> ":"
      [] h = "23" -> "#"
      [] h = "3F" -> "?"
      [] h = "25" -> "%"

\* unquote(s): one left-to-right pass; a "%" not followed by two hex digits
\* stays, and a decoded "%" is not decoded again
RECURSIVE Unquote(_)
Unquote(s) ==
    IF s = <<>> THEN <<>>
    ELSE IF Len(s) >= 2 /\ s[1] = "%" /\ s[2] \in HexPairs
         THEN <<Decoded(s[2])>> \o Unquote(Drop(s, 3))
         ELSE <<s[1]>> \o Unquote(Tail(s))

---------------------------------------------------------------------------
(* scrape_boss_urls.py: the URL canonicalizer *)

CATEGORY_URL == <<"https:", SiteNetloc, "/wiki/", "Category", ":", "Boss_Monsters">>

\* "dontstarve.fandom.com" in netloc
IsSiteNetloc(netloc) == netloc = SiteNetloc

\* normalize_fandom_url(base_url, href)
normalize_fandom_url(base_url, href) ==
    IF Falsy(href) THEN NoneVal
    ELSE LET absolute == UrlDefrag(UrlJoin(base_url, href))
             parsed == UrlParse(absolute)
         IN  IF parsed.scheme \notin {"http:", "https:"} THEN NoneVal
             ELSE IF ~IsSiteNetloc(parsed.netloc) THEN NoneVal
             ELSE IF parsed.path = <<>> \/ parsed.path[1] # "/wiki/" THEN NoneVal
             ELSE IF ":" \in {parsed.path[i] : i \in 2..Len(parsed.path)} THEN NoneVal
             ELSE Unquote(UrlUnparse([parsed EXCEPT !.query = <<>>, !.fragment = <<>>]))

\* the part of a canonical URL's path after /wiki/
PageTitle(url) == Tail(UrlParse(url).path)

\* hrefs: an optional scheme and host, a path prefix, and a title part
TailAtoms == {"Foo", ":", "#", "?", "%", "3A", "23", "3F", "25"}
HrefHeads ==
    {<<>>, <<SiteNetloc>>, <<"https:", SiteNetloc>>, <<"http:", SiteNetloc>>,
     <<"ftp:", SiteNetloc>>, <<"https:", "//other-host.example">>}
PathStarts == {"/wiki/", "/w/"}
Hrefs ==
    {<<>>} \cup {h \o <<p>> \o t : h \in HrefHeads, p \in PathStarts,
                                  t \in SeqUpTo(TailAtoms, MaxTail)}

---------------------------------------------------------------------------
(* scrape_boss_images.py: the image URL normalizer *)

DigitAtoms == {"200"}
PngNames == {"Ancient_Guardian.png", "Boss.png"}
JpgNames == {"Boss.jpg"}
UpperPngNames == {"Icon.PNG"}

\* "static.wikia.nocookie.net" in netloc
IsCdnNetloc(netloc) == netloc = CdnNetloc

\* the number of leading digit atoms of s: what \d+ consumes
RECURSIVE DigitRun(_)
DigitRun(s) == IF s # <<>> /\ s[1] \in DigitAtoms THEN 1 + DigitRun(Tail(s)) ELSE 0

\* re.sub(r"/scale-to-width-down/\d+", "", path): one pass from the left over
\* the non-overlapping matches; what a removal joins is not scanned again
RECURSIVE ReSubScale(_)
ReSubScale(p) ==
    IF p = <<>> THEN <<>>
    ELSE IF /\ Len(p) >= 4
            /\ p[1] = "/" /\ p[2] = "scale-to-width-down" /\ p[3] = "/"
            /\ p[4] \in DigitAtoms
         THEN ReSubScale(Drop(p, 4 + DigitRun(Drop(p, 4))))
         ELSE <<p[1]>> \o ReSubScale(Tail(p))

\* "/revision/" in path
HasRevision(p) ==
    \E i \in 1..(Len(p) - 2) : p[i] = "/" /\ p[i + 1] = "revision" /\ p[i + 2] = "/"

\* path.endswith(".png") or path.endswith(".jpg") or path.endswith(".jpeg")
EndsWithRasterExt(p) ==
    p # <<>> /\ p[Len(p)] \in PngNames \cup JpgNames \cup {".png", ".jpg", ".jpeg"}

\* normalize_image_url(raw)
normalize_image_url(raw) ==
    IF Falsy(raw) THEN raw
    ELSE LET defragged == UrlDefrag(raw)
             parsed == UrlParse(defragged)
             path == ReSubScale(parsed.path)
         IN  IF ~IsCdnNetloc(parsed.netloc) THEN defragged
             ELSE IF ~HasRevision(path) /\ EndsWithRasterExt(path)
                  THEN UrlUnparse([parsed EXCEPT
                                      !.path = path \o <<"/", "revision", "/", "latest">>])
                  ELSE UrlUnparse([parsed EXCEPT !.path = path])

\* raw image URLs: a host, path segments, an optional query and fragment
SegAtoms ==
    {"scale-to-width-down", "revision", "200", "Ancient_Guardian.png", "Boss.jpg",
     "Icon.PNG"}
ImageHeads == {<<"https:", CdnNetloc>>, <<CdnNetloc>>, <<"https:", "//example.com">>}

\* "/" + seg for each segment
RECURSIVE PathOf(_)
PathOf(segs) == IF segs = <<>> THEN <<>> ELSE <<"/", segs[1]>> \o PathOf(Tail(segs))

RawImageUrls ==
    {<<>>} \cup {h \o PathOf(segs) \o q \o f :
                    h \in ImageHeads, segs \in SeqUpTo(SegAtoms, MaxSegs),
                    q \in {<<>>, <<"?", "cb=1">>}, f \in {<<>>, <<"#", "frag">>}}

---------------------------------------------------------------------------
(* scrape_boss_images.py: the HTML fallback's choice of an image *)

\* s.lower().endswith(".png")
EndsWithPngCI(s) ==
    s # <<>> /\ s[Len(s)] \in PngNames \cup UpperPngNames \cup {".png", ".PNG"}

\* the name a .jpg/.jpeg name is rewritten to
PngOf(name) ==
    CASE name = "Boss.jpg" -> "Boss.png"
      [] name \in {".jpg", ".jpeg"} -> ".png"
      [] OTHER -> name

\* re.sub(r"\.(jpg|jpeg)(?=($|\?))", ".png", s, flags=re.IGNORECASE): an
\* extension at the end of the string or right before a "?" is rewritten
ReSubJpg(s) ==
    [i \in 1..Len(s) |->
        IF s[i] \in JpgNames \cup {".jpg", ".jpeg"} /\ (i = Len(s) \/ s[i + 1] = "?")
        THEN PngOf(s[i]) ELSE s[i]]

\* the parsed page as the selectors see it: the content of the og:image meta
\* tag (NoneVal: no tag or no content) and, for each selector of the infobox
\* list in order, the first element it matches with its src and data-src
\* attributes (NoneVal: no such attribute)
NoElement == [present |-> FALSE, src |-> NoneVal, dsrc |-> NoneVal]
Selectors == 1..3

\* the loop with the lazy-load attribute never read
RECURSIVE InfoboxPickEagerOnly(_, _)
InfoboxPickEagerOnly(els, k) ==
    IF k > Len(els) THEN NoneVal
    ELSE IF els[k].present /\ ~Falsy(els[k].src) THEN normalize_image_url(els[k].src)
    ELSE InfoboxPickEagerOnly(els, k + 1)

\* the loop over the infobox selectors, from selector k on
RECURSIVE InfoboxPick(_, _)
InfoboxPick(els, k) ==
    IF k > Len(els) THEN NoneVal
    ELSE LET img == els[k]
             src == normalize_image_url(img.src)
         IN  IF img.present /\ ~Falsy(img.src)
             THEN IF EndsWithPngCI(src) THEN src
                  ELSE IF ~Falsy(img.dsrc) THEN normalize_image_url(img.dsrc)
                  ELSE src
             ELSE InfoboxPick(els, k + 1)

\* pick_best_image_url(soup)
pick_best_image_url(soup) ==
    IF ~Falsy(soup.og)
    THEN LET cand == normalize_image_url(soup.og)
         IN  IF EndsWithPngCI(cand) THEN cand
             ELSE normalize_image_url(ReSubJpg(cand))
    ELSE InfoboxPick(soup.els, 1)

\* image URLs found in pages: a full-size CDN asset, a downscaled CDN
\* thumbnail, PNG and JPEG files of another host, a lazy-load placeholder
CdnFull ==
    <<"https:", CdnNetloc, "/", "Ancient_Guardian.png", "/", "revision", "/", "latest">>
CdnThumb ==
    <<"https:", CdnNetloc, "/", "scale-to-width-down", "/", "200", "/", "Boss.jpg">>
PlainPng == <<"https:", "//example.com", "/", "Ancient_Guardian.png">>
PlainJpg == <<"https:", "//example.com", "/", "Boss.jpg", "?", "cb=1">>
Placeholder == <<"data:", "image", "/", "gif;base64,R0lGOD">>
PageImageUrls == {CdnFull, CdnThumb, PlainPng, PlainJpg, Placeholder}

AttrValues == {NoneVal, <<>>} \cup PageImageUrls
Elements ==
    {NoElement} \cup [present : {TRUE}, src : AttrValues, dsrc : {NoneVal} \cup PageImageUrls]
Soups == [og : {NoneVal, CdnThumb, PlainPng}, els : [Selectors -> Elements]]

---------------------------------------------------------------------------
(* scrape_boss_images.py: the API tiers and the file name *)

\* s.lower(), atom by atom
LowerAtom(a) ==
    CASE a = "Ancient_Guardian" -> "ancient_guardian"
      [] a = "Other" -> "other"
      [] a = "Odd" -> "odd"
      [] a = "Icon" -> "icon"
      [] a = "File:" -> "file:"
      [] a = ".PNG" -> ".png"
      [] OTHER -> a
Lower(s) == [i \in 1..Len(s) |-> LowerAtom(s[i])]

\* s.startswith(prefix)
StartsWith(s, prefix) ==
    Len(prefix) <= Len(s) /\ SubSeq(s, 1, Len(prefix)) = prefix

\* s.endswith(ext) for a title whose extension is its last atom
EndsWith(s, exts) == s # <<>> /\ s[Len(s)] \in exts

\* the atoms that end in a colon
ColonAtoms == {":", "File:"} \cup SchemeAtoms

\* s.split(':')[-1]
AfterLastColon(s) ==
    IF \E i \in 1..Len(s) : s[i] \in ColonAtoms
    THEN Drop(s, 1 + CHOOSE i \in 1..Len(s) :
                       s[i] \in ColonAtoms /\ \A j \in (i + 1)..Len(s) : s[j] \notin ColonAtoms)
    ELSE s

\* t.replace('File:', '')
WithoutFilePrefix(t) == Without(t, {"File:"})

\* t.lower().endswith(('.png', '.jpg', '.jpeg'))
IsRaster(t) == EndsWith(Lower(t), {".png", ".jpg", ".jpeg"})

\* lines 157-161: the titles of one page's images that end in a raster
\* extension, in order
RECURSIVE RasterOf(_)
RasterOf(images) ==
    IF images = <<>> THEN <<>>
    ELSE (IF IsRaster(images[1]) THEN <<images[1]>> ELSE <<>>) \o RasterOf(Tail(images))

\* lines 156-161: the raster titles of all pages, in order
RECURSIVE RasterTitles(_)
RasterTitles(pages) ==
    IF pages = <<>> THEN <<>>
    ELSE RasterOf(pages[1]) \o RasterTitles(Tail(pages))

\* lines 165-169: the first title whose name starts with the base title and
\* ends in .png, or None
RECURSIVE FirstBaseMatch(_, _)
FirstBaseMatch(titles, base) ==
    IF titles = <<>> THEN NoneVal
    ELSE LET name == Lower(WithoutFilePrefix(titles[1]))
         IN  IF StartsWith(name, Lower(base)) /\ EndsWith(name, {".png"})
             THEN titles[1]
             ELSE FirstBaseMatch(Tail(titles), base)

\* line 172 with the .png preference lost
FirstPngElseFirstNoPng(titles) == titles[1]

\* line 172: next((t for t in image_titles if t.lower().endswith('.png')),
\* image_titles[0])
RECURSIVE FirstPng(_, _)
FirstPng(titles, default) ==
    IF titles = <<>> THEN default
    ELSE IF EndsWith(Lower(titles[1]), {".png"}) THEN titles[1]
    ELSE FirstPng(Tail(titles), default)

FirstPngElseFirst(titles) == FirstPng(titles, titles[1])

\* lines 163-172: the title whose direct URL is looked up, or None
PreferredTitle(image_titles, title) ==
    LET matched == FirstBaseMatch(image_titles, AfterLastColon(title))
    IN  IF Falsy(matched) /\ image_titles # <<>> THEN FirstPngElseFirst(image_titles)
        ELSE matched

\* lines 131-135: the first page's non-empty original source, or None
RECURSIVE OriginalSource(_)
OriginalSource(pages) ==
    IF pages = <<>> THEN NoneVal
    ELSE IF ~Falsy(pages[1]) THEN pages[1]
    ELSE OriginalSource(Tail(pages))

\* lines 190-194: the url of the first imageinfo of the first page that has
\* any (which may itself be missing), or None
RECURSIVE FirstInfoUrl(_)
FirstInfoUrl(pages) ==
    IF pages = <<>> THEN NoneVal
    ELSE IF pages[1] # <<>> THEN pages[1][1]
    ELSE FirstInfoUrl(Tail(pages))

\* lines 212-216: the page title, the part of the URL's path after its first
\* /wiki/, or the whole URL when the path has no /wiki/
TitleOf(boss_url) ==
    LET path == UrlParse(boss_url).path
        at == IndexOf(path, {"/wiki/"})
    IN  IF at = 0 THEN boss_url ELSE Drop(path, at + 1)

\* what stands before the last "." of an atom that holds one; any other atom
\* as it is
BeforeDot(a) ==
    CASE a = "Ancient_Guardian.png" -> <<"Ancient_Guardian">>
      [] a = "Boss.jpg" -> <<"Boss">>
      [] a = "Boss.png" -> <<"Boss">>
      [] a = "Icon.PNG" -> <<"Icon">>
      [] a \in {".png", ".jpg", ".jpeg", ".PNG", ".gif"} -> <<>>
      [] OTHER -> <<a>>

\* Path(name).stem: the name up to its last ".", the whole name when it has
\* no "." or only a leading one
Stem(name) ==
    LET dots == {i \in 1..Len(name) : BeforeDot(name[i]) # <<name[i]>>}
    IN  IF dots = {} THEN name
        ELSE LET last == CHOOSE i \in dots : \A k \in dots : k <= i
                 stem == SubSeq(name, 1, last - 1) \o BeforeDot(name[last])
             IN  IF stem = <<>> THEN name ELSE stem

\* a path with each atom that holds separators spelt as separators and names
RECURSIVE Spelt(_)
Spelt(path) ==
    IF path = <<>> THEN <<>>
    ELSE (CASE path[1] = "/wiki/" -> <<"/", "wiki", "/">>
            [] path[1] = "/w/" -> <<"/", "w", "/">>
            [] path[1] = "Moose/Goose" -> <<"Moose", "/", "Goose">>
            [] OTHER -> <<path[1]>>) \o Spelt(Tail(path))

\* the text between the separators of p, cur being the segment begun so far;
\* an empty segment (a leading, doubled or trailing separator) is dropped
RECURSIVE SegmentsFrom(_, _)
SegmentsFrom(p, cur) ==
    LET ended == IF cur = <<>> THEN <<>> ELSE <<cur>>
    IN  IF p = <<>> THEN ended
        ELSE IF p[1] = "/" THEN ended \o SegmentsFrom(Tail(p), <<>>)
        ELSE SegmentsFrom(Tail(p), cur \o <<p[1]>>)

\* Path(path).parts without the root
Segments(path) == SegmentsFrom(Spelt(path), <<>>)

\* Path(urlparse(url).path).name: the last segment of the path, "" without one
PathName(url) ==
    LET segs == Segments(UrlParse(url).path)
    IN  IF segs = <<>> THEN <<>> ELSE segs[Len(segs)]

\* filename_from_image_url(url, fallback)
filename_from_image_url(url, fallback) ==
    LET segs == Segments(UrlParse(url).path)
        name == PathName(url)
        parent_name == IF Len(segs) >= 3 THEN segs[Len(segs) - 2] ELSE fallback
    IN  IF name = <<"latest">> THEN Stem(parent_name) \o <<".png">>
        ELSE Stem(name) \o <<".png">>

---------------------------------------------------------------------------
(* scrape_boss_urls.py: member links, pagination, main *)

FallbackThreshold == 30

\* the listing: the category page and its continuation pages
Page2Url == CATEGORY_URL \o <<"?", "from=Deerclops">>
Page3Url == CATEGORY_URL \o <<"?", "from=Moose">>
ListingUrls == {CATEGORY_URL, Page2Url, Page3Url}

\* the href of a link to a listing page, as the site writes it
HrefTo(url) == Drop(url, 3)
Wiki(title) == <<"/wiki/", title>>

\* next-page links: none, one without href, one to each listing page
NextLinks == {NoneVal, <<>>} \cup {HrefTo(u) : u \in ListingUrls}

\* member links and other anchors of a page: a short page whose other anchors
\* repeat a member under a fragment and a query and link outside the
\* articles, a short page that shares a member with it, a page of thirty
\* members
BigMembers ==
    {"B01", "B02", "B03", "B04", "B05", "B06", "B07", "B08", "B09",
     "B10", "B11", "B12", "B13", "B14", "B15", "B16", "B17", "B18",
     "B19", "B20", "B21", "B22", "B23", "B24", "B25", "B26", "B27",
     "B28", "B29", "B30"}
ShortPage ==
    [members |-> {Wiki("Deerclops"), Wiki("Bearger")},
     others |-> {Wiki("Main_Page"), Wiki("Deerclops") \o <<"#", "Trivia">>,
                 Wiki("Bearger") \o <<"?", "action=edit">>,
                 <<"/wiki/", "Category", ":", "Boss_Monsters">>,
                 <<"https:", "//other-host.example", "/wiki/", "Deerclops">>,
                 NoneVal}]
OverlapPage ==
    [members |-> {Wiki("Bearger"), Wiki("Moose")}, others |-> {}]
BigPage ==
    [members |-> {Wiki(b) : b \in BigMembers}, others |-> {Wiki("Main_Page")}]
PageBodies == {ShortPage, OverlapPage, BigPage}
Htmls ==
    {[members |-> b.members, others |-> b.others, next |-> n] :
        b \in PageBodies, n \in NextLinks}
Webs ==
    {w \in [ListingUrls -> Htmls] :
        /\ w[Page2Url].members # ShortPage.members
        /\ w[Page3Url].members # BigPage.members}

\* a listing page as the selectors see it: the hrefs of its member links, of
\* its other anchors (NoneVal: an anchor without href) and of its next-page
\* link (NoneVal: no such link)
Anchors(html) ==
    html.members \cup html.others
    \cup (IF html.next = NoneVal THEN {} ELSE {html.next})

\* normalize_fandom_url(base_url, a.get("href")), tabulated over the listing
\* urls and the hrefs their pages can hold
AnchorUrl ==
    [base_url \in ListingUrls, href \in UNION {Anchors(h) : h \in Htmls} |->
        normalize_fandom_url(base_url, href)]

\* lines 68-71, 75-78: the urls of the anchors that are not None
CanonicalOf(hrefs, base_url) ==
    {AnchorUrl[base_url, h] : h \in hrefs} \ {NoneVal}

\* all_urls.update(urls) with the update replaced by an assignment
KeepLastPageOnly(all_urls, found) == found

\* line 122, all_urls.update(urls)
Update(all_urls, found) == all_urls \cup found

\* lines 73-80: fewer than thirty urls from the member links bring in the
\* urls of every anchor of the page
WithFallback(found, html, base_url) ==
    IF Cardinality(found) < FallbackThreshold
    THEN found \cup CanonicalOf(Anchors(html), base_url)
    ELSE found

\* extract_member_links(html, base_url)
extract_member_links(html, base_url) ==
    WithFallback(CanonicalOf(html.members, base_url), html, base_url)

\* the atoms of the collected urls in code-point order
AtomOrder ==
    <<"//dontstarve.fandom.com", "/wiki/", "B01", "B02", "B03", "B04",
     "B05", "B06", "B07", "B08", "B09", "B10", "B11", "B12", "B13",
     "B14", "B15", "B16", "B17", "B18", "B19", "B20", "B21", "B22",
     "B23", "B24", "B25", "B26", "B27", "B28", "B29", "B30",
     "Bearger", "Deerclops", "Main_Page", "Moose", "http:", "https:">>
AtomRank(a) == CHOOSE i \in 1..Len(AtomOrder) : AtomOrder[i] = a

\* u <= v as Python compares the strings
RECURSIVE StrLeq(_, _)
StrLeq(u, v) ==
    IF u = <<>> THEN TRUE
    ELSE IF v = <<>> THEN FALSE
    ELSE IF u[1] = v[1] THEN StrLeq(Tail(u), Tail(v))
    ELSE AtomRank(u[1]) < AtomRank(v[1])

\* min(S) as Python orders strings
Least(S) == CHOOSE u \in S : \A v \in S : StrLeq(u, v)

\* sorted(all_urls), least first
SortedFrom[S \in SUBSET Seq(STRING)] ==
    IF S = {} THEN <<>> ELSE <<Least(S)>> \o SortedFrom[S \ {Least(S)}]
Sorted(S) == SortedFrom[S]

\* the cycle guard lost: a next-page link is always followed
AlreadyYieldedNever(next_url, seen) == FALSE

\* line 95: `not next_url or next_url in yielded`
AlreadyYielded(next_url, seen) == next_url = <<>> \/ next_url \in seen

\* lines 93-97: the generator, holding a page whose next-page link is link,
\* yields the link's url or ends
Paginate(link, seen) ==
    IF link = NoneVal
    THEN kPc' = "finish" /\ UNCHANGED <<pageUrl, yieldLog>>
    ELSE \E next_url \in {UrlJoin(CATEGORY_URL, link)} :
            IF AlreadyYielded(next_url, seen)
            THEN kPc' = "finish" /\ UNCHANGED <<pageUrl, yieldLog>>
            ELSE /\ pageUrl' = next_url
                 /\ yieldLog' = Append(yieldLog, next_url)
                 /\ kPc' = "body"

\* lines 108-112, 85-88: the category page is fetched (exit status 2 when
\* that fails) and the generator yields its url
FetchCategory(ok) ==
    /\ kPc = "start"
    /\ IF ok
       THEN /\ nextLink' = web[CATEGORY_URL].next
            /\ pageUrl' = CATEGORY_URL
            /\ yieldLog' = <<CATEGORY_URL>>
            /\ kPc' = "body"
            /\ UNCHANGED <<kStatus, fetchFailed>>
       ELSE /\ kStatus' = 2
            /\ kPc' = "done"
            /\ fetchFailed' = TRUE
            /\ UNCHANGED <<nextLink, pageUrl, yieldLog>>
    /\ UNCHANGED <<web, yielded, allUrls, sortedUrls>>

\* lines 115-124: the loop body for the yielded url; only a continuation
\* page is fetched, and one that fails is skipped
ProcessPage(ok) ==
    /\ kPc = "body"
    /\ pageUrl = CATEGORY_URL => ok
    /\ IF ok
       THEN /\ allUrls' = Update(allUrls, extract_member_links(web[pageUrl], pageUrl))
            /\ UNCHANGED fetchFailed
       ELSE /\ fetchFailed' = TRUE
            /\ UNCHANGED allUrls
    /\ kPc' = "gen"
    /\ UNCHANGED <<web, yielded, nextLink, pageUrl, sortedUrls, kStatus, yieldLog>>

\* lines 89-97, 98-104: the generator resumes: the yielded url joins the
\* yielded set; after a continuation page it fetches that page again for its
\* next-page link and ends when the fetch fails
ResumeGenerator(ok) ==
    /\ kPc = "gen"
    /\ pageUrl = CATEGORY_URL => ok
    /\ yielded' = yielded \cup {pageUrl}
    /\ IF ok
       THEN /\ nextLink' = web[pageUrl].next
            /\ Paginate(web[pageUrl].next, yielded \cup {pageUrl})
            /\ UNCHANGED fetchFailed
       ELSE /\ kPc' = "finish"
            /\ fetchFailed' = TRUE
            /\ UNCHANGED <<nextLink, pageUrl, yieldLog>>
    /\ UNCHANGED <<web, allUrls, sortedUrls, kStatus>>

\* lines 126-144: the urls are sorted and written
WriteUrls ==
    /\ kPc = "finish"
    /\ sortedUrls' = Sorted(allUrls)
    /\ kStatus' = 0
    /\ kPc' = "done"
    /\ UNCHANGED <<web, yielded, nextLink, pageUrl, allUrls, yieldLog, fetchFailed>>

---------------------------------------------------------------------------
(* update_boss_urls.py: the name reconciler *)

\* s.strip(chars) for chars a set of atoms
RECURSIVE LStrip(_, _)
LStrip(s, chars) ==
    IF s # <<>> /\ s[1] \in chars THEN LStrip(Tail(s), chars) ELSE s
RECURSIVE RStrip(_, _)
RStrip(s, chars) ==
    IF s # <<>> /\ s[Len(s)] \in chars THEN RStrip(SubSeq(s, 1, Len(s) - 1), chars) ELSE s
Strip(s, chars) == RStrip(LStrip(s, chars), chars)

\* s.replace(" ", "_")
Underscored(s) == [i \in 1..Len(s) |-> IF s[i] = " " THEN "_" ELSE s[i]]

\* "Reanimated Skeleton" in name
HasAlias(name) ==
    \E i \in 1..(Len(name) - 2) :
        name[i] = "Reanimated" /\ name[i + 1] = " " /\ name[i + 2] = "Skeleton"

\* normalize_name_to_page(name)
normalize_name_to_page(name) ==
    IF HasAlias(name) THEN <<"Reanimated", "_", "Skeleton">>
    ELSE Underscored(Strip(name, {" "}))

\* lines 29-35: the page title of a line of boss_urls.txt, NoneVal for a line
\* that is skipped
LineTitle(line) ==
    LET path == Unquote(UrlParse(Strip(line, {" "})).path)
        at == IndexOf(path, {"/wiki/"})
    IN  IF Strip(line, {" "}) = <<>> \/ at = 0 THEN NoneVal ELSE Drop(path, at + 1)

\* load_boss_urls(): the mapping as a set of (page, url) entries; a later
\* line replaces an earlier one of the same page
RECURSIVE LoadMapping(_, _)
LoadMapping(lines, mapping) ==
    IF lines = <<>> THEN mapping
    ELSE LET page == LineTitle(lines[1])
             url == Strip(lines[1], {" "})
         IN  IF page = NoneVal THEN LoadMapping(Tail(lines), mapping)
             ELSE LoadMapping(Tail(lines),
                              {e \in mapping : e.page # page}
                                  \cup {[page |-> page, url |-> url]})

\* name_to_url.get(page, '')
Lookup(mapping, page) ==
    IF \E e \in mapping : e.page = page
    THEN (CHOOSE e \in mapping : e.page = page).url
    ELSE <<>>

\* lines 56-59: the header with 'url' inserted second when it has none
WithUrlColumn(fieldnames) ==
    IF "url" \in Range(fieldnames) THEN fieldnames
    ELSE IF fieldnames = <<>> THEN <<"url">>
    ELSE <<fieldnames[1], "url">> \o Tail(fieldnames)

\* row.get('name', '').strip().strip('"')
RowName(row) ==
    Strip(Strip(IF "name" \in DOMAIN row THEN row.name ELSE <<>>, {" "}), {"\""})

\* the row written with only its url
UpdatedRowUrlOnly(row, mapping) ==
    [f \in {"url"} |-> Lookup(mapping, normalize_name_to_page(RowName(row)))]

\* lines 63-67, 72-73: the row with its url set, as written
UpdatedRow(row, mapping) ==
    [f \in DOMAIN row \cup {"url"} |->
        IF f = "url" THEN Lookup(mapping, normalize_name_to_page(RowName(row)))
        ELSE row[f]]

\* the inputs: lines of boss_urls.txt, headers and rows of bosses.csv
UrlLines ==
    {<<"https:", SiteNetloc, "/wiki/", "Deerclops">>,
     <<"http:", SiteNetloc, "/wiki/", "Deerclops">>,
     <<"https:", SiteNetloc, "/wiki/", "Reanimated", "_", "Skeleton">>,
     <<>>}
RecordNames ==
    {<<"Deerclops">>, <<" ", "Deerclops", " ">>, <<"\"", "Deerclops", "\"">>,
     <<"Reanimated", " ", "Skeleton", " ", "(Ruins)">>, <<"Moose/Goose">>}
Headers == {<<"name", "type">>, <<"name", "url">>, <<"type">>}
FieldValues(f) ==
    CASE f = "name" -> RecordNames
      [] f = "url" -> {<<>>, <<"https:", SiteNetloc, "/wiki/", "Old">>}
      [] f = "type" -> {<<"Giant">>, <<>>}
RowsOf(header) ==
    {r \in [Range(header) -> UNION {FieldValues(f) : f \in Range(header)}] :
        \A f \in Range(header) : r[f] \in FieldValues(f)}

\* update_boss_urls.main
ReconcileMain ==
    /\ rPc = "start"
    /\ \E name_to_url \in {LoadMapping(rLines, {})} :
          rOutRows' = [i \in 1..Len(rRows) |-> UpdatedRow(rRows[i], name_to_url)]
    /\ rOutHeader' = WithUrlColumn(rHeader)
    /\ rPc' = "done"
    /\ UNCHANGED <<rLines, rHeader, rRows>>

---------------------------------------------------------------------------
(* Each specification below runs one component; the others stay idle *)

otherThanCanon == <<normVars, pickVars, imageVars, crawlVars, reconcileVars>>
otherThanNorm == <<canonVars, pickVars, imageVars, crawlVars, reconcileVars>>
otherThanPick == <<canonVars, normVars, imageVars, crawlVars, reconcileVars>>
otherThanImage == <<canonVars, normVars, pickVars, crawlVars, reconcileVars>>
otherThanCrawl == <<canonVars, normVars, pickVars, imageVars, reconcileVars>>
otherThanReconcile == <<canonVars, normVars, pickVars, imageVars, crawlVars>>

---------------------------------------------------------------------------
(* scrape_boss_images.py: main, one action per request and what follows it. *)
(* A local of the code is bound as \E x \in {e}, which computes e once.      *)

\* the lines of boss_urls.txt: two article pages and a line that is no
\* article URL
GuardianUrl == <<"https:", SiteNetloc, "/wiki/", "Ancient_Guardian">>
OddUrl == <<"https:", SiteNetloc, "/w/", "Odd">>
BossUrls == {GuardianUrl, OddUrl}

\* an API or page response: ok is FALSE when the request raised (connection
\* error, timeout, non-2xx status, bad JSON)
Failed == [ok |-> FALSE, body |-> <<>>]
Ok(body) == [ok |-> TRUE, body |-> body]

\* pageimages responses: per page, the original source (NoneVal: none)
OriginalResponses ==
    {Failed} \cup {Ok(b) : b \in SeqUpTo({NoneVal, <<>>, CdnFull}, 2)}

\* images responses: per page, the titles of its images (<<>>: no title)
GuardianPng == <<"File:", "Ancient_Guardian", ".png">>
GuardianOldJpg == <<"File:", "Ancient_Guardian", "_old", ".jpg">>
GuardianUpper == <<"File:", "ancient_guardian", "_2", ".PNG">>
OtherPng == <<"File:", "Other", ".png">>
IconGif == <<"File:", "Icon", ".gif">>
ImageTitles == {GuardianPng, GuardianOldJpg, GuardianUpper, OtherPng, IconGif}
ListResponses ==
    {Failed} \cup {Ok(<<>>)} \cup {Ok(<<l>>) : l \in SeqUpTo(ImageTitles, MaxImages)}
    \cup {Ok(<<l1, l2>>) : l1 \in SeqUpTo({OtherPng}, 1), l2 \in SeqUpTo({GuardianPng}, 1)}

\* imageinfo responses: per page, the urls of its imageinfo entries
InfoResponses ==
    {Failed} \cup {Ok(b) : b \in SeqUpTo({<<>>, <<NoneVal>>, <<CdnThumb>>}, 2)}

\* page fetches: the parsed page
NoImageSoup == [og |-> NoneVal, els |-> [k \in Selectors |-> NoElement]]
OgSoup == [NoImageSoup EXCEPT !.og = CdnThumb]
LazySoup ==
    [NoImageSoup EXCEPT !.els[2] = [present |-> TRUE, src |-> Placeholder, dsrc |-> PlainPng]]
HtmlResponses == {Failed} \cup {Ok(sp) : sp \in {NoImageSoup, OgSoup, LazySoup}}

\* downloads: the declared content type and whether the bytes decode as an
\* image
DownloadResponses ==
    {Failed} \cup {Ok([ctype |-> c, decodes |-> d]) :
                      c \in {"image/png", "image/jpeg"}, d \in BOOLEAN}

Tier1 == "api-original"
Tier2 == "api-images"
Tier2Info == "api-imageinfo"
Tier3 == "html"

ImageInit ==
    /\ cHref = <<>> /\ cOut = NoneVal /\ cOut2 = NoneVal /\ cPc = "idle"
    /\ nRaw = <<>> /\ nOut = <<>> /\ nOut2 = <<>> /\ nPc = "idle"
    /\ pSoup = [og |-> NoneVal, els |-> <<>>] /\ pResult = NoneVal /\ pPc = "idle"
    /\ urlsFileExists \in BOOLEAN
    /\ urls \in (IF urlsFileExists THEN SeqUpTo(BossUrls, MaxUrls) ELSE {<<>>})
    /\ idx = 1 /\ pc = "start"
    /\ reqLog = <<>> /\ origSource = NoneVal /\ listResp = <<>> /\ imageTitles = <<>>
    /\ preferred = NoneVal /\ infoUrl = NoneVal /\ imgUrl = NoneVal
    /\ total = 0 /\ files = {} /\ outcomes = <<>> /\ status = -1
    /\ web = [u \in ListingUrls |-> [members |-> {}, others |-> {}, next |-> NoneVal]]
    /\ kPc = "idle" /\ yielded = {} /\ nextLink = NoneVal /\ pageUrl = NoneVal
    /\ allUrls = {} /\ sortedUrls = <<>> /\ kStatus = -1 /\ yieldLog = <<>>
    /\ fetchFailed = FALSE
    /\ rLines = <<>> /\ rHeader = <<>> /\ rRows = <<>>
    /\ rOutHeader = <<>> /\ rOutRows = <<>> /\ rPc = "idle"

\* lines 201-209: the input file is missing (exit status 2) or read
ReadUrls ==
    /\ pc = "start"
    /\ IF urlsFileExists
       THEN pc' = "tier1" /\ status' = status
       ELSE pc' = "done" /\ status' = 2
    /\ UNCHANGED <<urlsFileExists, urls, idx, reqLog, origSource, listResp,
                   imageTitles, preferred, infoUrl, imgUrl, total, files, outcomes>>

\* a failure that ends the loop instead of going on to the next url
NextItemAbortOnFailure(result, file) ==
    /\ outcomes' = Append(outcomes, [url |-> urls[idx], result |-> result, file |-> file])
    /\ idx' = IF result \in {"skipped", "failed"} THEN Len(urls) + 1 ELSE idx + 1
    /\ pc' = "tier1"

\* `continue`, or the end of the loop body: the page's outcome is settled (the
\* name of the file it saved, or none) and the loop goes on to the next url
NextItem(result, file) ==
    /\ outcomes' = Append(outcomes, [url |-> urls[idx], result |-> result, file |-> file])
    /\ idx' = idx + 1
    /\ pc' = "tier1"

\* line 219 with the test lost: the page is always fetched
NeedsHtmlAlways(img_url) == TRUE

\* line 219, `if not img_url`: whether the HTML fallback runs
NeedsHtml(img_url) == Falsy(img_url)

\* lines 218-231: where main goes with what get_page_image_via_api returned
AfterApi(img_url) == IF NeedsHtml(img_url) THEN "html" ELSE "download"

\* lines 210-218, 116-137: the loop takes the next url and issues the
\* original-image query
ApiOriginalQuery(resp) ==
    /\ pc = "tier1" /\ idx <= Len(urls)
    /\ reqLog' = <<Tier1>>
    /\ \E source \in {IF resp.ok THEN OriginalSource(resp.body) ELSE NoneVal} :
           /\ origSource' = source
           /\ imgUrl' = source
           /\ pc' = IF ~Falsy(source) THEN AfterApi(source) ELSE "tier2"
    /\ listResp' = <<>> /\ imageTitles' = <<>> /\ preferred' = NoneVal
    /\ infoUrl' = NoneVal
    /\ UNCHANGED <<urlsFileExists, urls, idx, total, files, outcomes, status>>

\* lines 140-174, 195-197: the image-list query and the choice among its titles
ApiImageListQuery(resp) ==
    /\ pc = "tier2"
    /\ reqLog' = Append(reqLog, Tier2)
    /\ \E image_titles \in {IF resp.ok THEN RasterTitles(resp.body) ELSE <<>>} :
       \E chosen \in {IF resp.ok THEN PreferredTitle(image_titles, TitleOf(urls[idx]))
                      ELSE NoneVal} :
           /\ imageTitles' = image_titles
           /\ preferred' = chosen
           /\ pc' = IF ~Falsy(chosen) THEN "info" ELSE AfterApi(NoneVal)
    /\ listResp' = resp.body
    /\ UNCHANGED <<urlsFileExists, urls, idx, origSource, infoUrl, imgUrl, total,
                   files, outcomes, status>>

\* lines 175-197, 218-219: the image-info query for the chosen title
ApiImageInfoQuery(resp) ==
    /\ pc = "info"
    /\ reqLog' = Append(reqLog, Tier2Info)
    /\ \E url \in {IF resp.ok THEN FirstInfoUrl(resp.body) ELSE NoneVal} :
           /\ infoUrl' = url
           /\ imgUrl' = url
           /\ pc' = AfterApi(url)
    /\ UNCHANGED <<urlsFileExists, urls, idx, origSource, listResp, imageTitles,
                   preferred, total, files, outcomes, status>>

\* lines 219-230: the page fetch and the choice of an image in it
HtmlFetch(resp) ==
    /\ pc = "html"
    /\ reqLog' = Append(reqLog, Tier3)
    /\ IF ~resp.ok
       THEN NextItem("skipped", NoneVal) /\ imgUrl' = imgUrl
       ELSE \E cand \in {pick_best_image_url(resp.body)} :
                /\ imgUrl' = cand
                /\ IF Falsy(cand)
                   THEN NextItem("no-image", NoneVal)
                   ELSE pc' = "download" /\ UNCHANGED <<idx, outcomes>>
    /\ UNCHANGED <<urlsFileExists, urls, origSource, listResp, imageTitles, preferred,
                   infoUrl, total, files, status>>

\* lines 231-257: the candidate is normalized and named, fetched and written
\* (as received when it is declared PNG or does not decode, re-encoded as PNG
\* otherwise)
Download(resp) ==
    /\ pc = "download"
    /\ \E img_url \in {normalize_image_url(imgUrl)} :
       \E filename \in {filename_from_image_url(img_url, PathName(urls[idx]))} :
           IF resp.ok
           THEN /\ files' = {f \in files : f.name # filename}
                               \cup {[name |-> filename,
                                      bytes |-> IF resp.body.ctype = "image/png"
                                                   \/ ~resp.body.decodes
                                                THEN "raw" ELSE "png"]}
                /\ total' = total + 1
                /\ NextItem("saved", filename)
           ELSE /\ files' = files
                /\ total' = total
                /\ NextItem("failed", NoneVal)
    /\ UNCHANGED <<urlsFileExists, urls, reqLog, origSource, listResp, imageTitles,
                   preferred, infoUrl, imgUrl, status>>

\* lines 259-260: the loop is over
Finish ==
    /\ pc = "tier1" /\ idx > Len(urls)
    /\ pc' = "done"
    /\ status' = 0
    /\ UNCHANGED <<urlsFileExists, urls, idx, reqLog, origSource, listResp,
                   imageTitles, preferred, infoUrl, imgUrl, total, files, outcomes>>

ImageNext ==
    \/ ReadUrls /\ UNCHANGED otherThanImage
    \/ \E resp \in OriginalResponses : ApiOriginalQuery(resp) /\ UNCHANGED otherThanImage
    \/ \E resp \in ListResponses : ApiImageListQuery(resp) /\ UNCHANGED otherThanImage
    \/ \E resp \in InfoResponses : ApiImageInfoQuery(resp) /\ UNCHANGED otherThanImage
    \/ \E resp \in HtmlResponses : HtmlFetch(resp) /\ UNCHANGED otherThanImage
    \/ \E resp \in DownloadResponses : Download(resp) /\ UNCHANGED otherThanImage
    \/ Finish /\ UNCHANGED otherThanImage

SpecImages == ImageInit /\ [][ImageNext]_vars

---------------------------------------------------------------------------
(* Properties of the image run *)

\* C1: the requests of a page come in the order original-image, image-list,
\* image-info, page fetch; the image-list query is issued only when the
\* original-image tier gave no candidate and the page fetch only when neither
\* API tier did; a non-empty original source is the chosen candidate and is
\* followed by no other request for the page
C1_TiersInOrder ==
    /\ reqLog \in {<<>>, <<Tier1>>, <<Tier1, Tier2>>, <<Tier1, Tier2, Tier2Info>>,
                   <<Tier1, Tier2, Tier3>>, <<Tier1, Tier2, Tier2Info, Tier3>>}
    /\ Tier2 \in Range(reqLog) => Falsy(origSource)
    /\ Tier3 \in Range(reqLog) => Falsy(origSource) /\ Falsy(infoUrl)
    /\ ~Falsy(origSource) => reqLog = <<Tier1>> /\ imgUrl = origSource

C1_Witness ==
    /\ pc = "download" /\ idx = 2
    /\ origSource = CdnFull /\ imgUrl = CdnFull /\ reqLog = <<Tier1>>
    /\ outcomes[1].result = "no-image"

\* the response's titles in order, all pages together
RECURSIVE Flatten(_)
Flatten(pages) == IF pages = <<>> THEN <<>> ELSE pages[1] \o Flatten(Tail(pages))

\* a title's name: the title without a leading "File:"
NameOf(t) == IF t # <<>> /\ t[1] = "File:" THEN Tail(t) ELSE t

IsPngTitle(t) == t # <<>> /\ t[Len(t)] \in {".png", ".PNG"}
IsRasterTitle(t) == t # <<>> /\ t[Len(t)] \in {".png", ".PNG", ".jpg", ".jpeg"}

\* the name of t starts, whatever the case, with the page's base title
StartsWithBase(t, base) ==
    /\ Len(NameOf(t)) >= Len(base)
    /\ \A i \in 1..Len(base) : LowerAtom(NameOf(t)[i]) = LowerAtom(base[i])

\* the least index of L satisfying P, or 0
FirstIndex(L, P(_)) ==
    IF \E i \in 1..Len(L) : P(L[i])
    THEN CHOOSE i \in 1..Len(L) : P(L[i]) /\ \A j \in 1..(i - 1) : ~P(L[j])
    ELSE 0

\* C5: once the image-list query of a page has answered, L is the response's
\* titles that end in .png, .jpg or .jpeg, in order; the title looked up is the
\* first of L that starts with the page's base title and ends in .png, else
\* the first of L that ends in .png, else the first of L; with L empty nothing
\* is looked up: no image-info query is issued and the tier has no candidate
C5_PreferredImage ==
    (pc \in {"info", "html", "download"} /\ Tier2 \in Range(reqLog)) =>
        LET L == imageTitles
            base == AfterLastColon(TitleOf(urls[idx]))
            IsA(t) == StartsWithBase(t, base) /\ IsPngTitle(t)
            a == FirstIndex(L, IsA)
            b == FirstIndex(L, IsPngTitle)
        IN  /\ L = Keep(Flatten(listResp), {t \in ImageTitles : IsRasterTitle(t)})
            /\ preferred = IF a # 0 THEN L[a]
                           ELSE IF b # 0 THEN L[b]
                           ELSE IF L # <<>> THEN L[1]
                           ELSE NoneVal
            /\ L = <<>> => Tier2Info \notin Range(reqLog) /\ Falsy(infoUrl)
            /\ pc = "info" => ~Falsy(preferred)

C5_Witness ==
    /\ pc = "info" /\ urls[idx] = GuardianUrl
    /\ listResp = <<<<GuardianOldJpg, GuardianPng>>>>
    /\ imageTitles = <<GuardianOldJpg, GuardianPng>>
    /\ preferred = GuardianPng

Saved == {i \in 1..Len(outcomes) : outcomes[i].result = "saved"}

\* C7: the urls are processed in list order whatever fails; a page that fails
\* or has no image saves no file and leaves the saved count alone; a run that
\* read its input ends with status 0, every url processed and a saved count
\* equal to the number of pages whose download succeeded
C7_FailuresDoNotAbort ==
    /\ \A i \in 1..Len(outcomes) : outcomes[i].url = urls[i]
    /\ pc \in {"tier1", "tier2", "info", "html", "download"} => Len(outcomes) = idx - 1
    /\ total = Cardinality(Saved)
    /\ {f.name : f \in files} = {outcomes[i].file : i \in Saved}
    /\ \A i \in 1..Len(outcomes) : i \notin Saved => outcomes[i].file = NoneVal
    /\ (pc = "done" /\ urlsFileExists) =>
           status = 0 /\ Len(outcomes) = Len(urls)
    /\ status = 0 => pc = "done"

C7_Witness ==
    /\ pc = "done" /\ status = 0 /\ Len(urls) = 2 /\ total = 1
    /\ outcomes[1].result \in {"failed", "skipped"}
    /\ outcomes[2].result = "saved"

---------------------------------------------------------------------------
(* The canonicalizer and the normalizer, each applied once and again *)

CanonInit ==
    /\ cHref \in Hrefs /\ cOut = NoneVal /\ cOut2 = NoneVal /\ cPc = "start"
    /\ nRaw = <<>> /\ nOut = <<>> /\ nOut2 = <<>> /\ nPc = "idle"
    /\ pSoup = [og |-> NoneVal, els |-> <<>>] /\ pResult = NoneVal /\ pPc = "idle"
    /\ urlsFileExists = FALSE /\ urls = <<>> /\ idx = 0 /\ pc = "idle"
    /\ reqLog = <<>> /\ origSource = NoneVal /\ listResp = <<>> /\ imageTitles = <<>>
    /\ preferred = NoneVal /\ infoUrl = NoneVal /\ imgUrl = NoneVal
    /\ total = 0 /\ files = {} /\ outcomes = <<>> /\ status = -1
    /\ web = [u \in ListingUrls |-> [members |-> {}, others |-> {}, next |-> NoneVal]]
    /\ kPc = "idle" /\ yielded = {} /\ nextLink = NoneVal /\ pageUrl = NoneVal
    /\ allUrls = {} /\ sortedUrls = <<>> /\ kStatus = -1 /\ yieldLog = <<>>
    /\ fetchFailed = FALSE
    /\ rLines = <<>> /\ rHeader = <<>> /\ rRows = <<>>
    /\ rOutHeader = <<>> /\ rOutRows = <<>> /\ rPc = "idle"

\* canonicalize(base, href)
Canonicalize ==
    /\ cPc = "start"
    /\ cOut' = normalize_fandom_url(CATEGORY_URL, cHref)
    /\ cPc' = "once"
    /\ UNCHANGED <<cHref, cOut2>>

\* canonicalize(base, canonicalize(base, href)) for a non-null first result
Recanonicalize ==
    /\ cPc = "once"
    /\ cOut # NoneVal
    /\ cOut2' = normalize_fandom_url(CATEGORY_URL, cOut)
    /\ cPc' = "twice"
    /\ UNCHANGED <<cHref, cOut>>

CanonNext ==
    \/ Canonicalize /\ UNCHANGED otherThanCanon
    \/ Recanonicalize /\ UNCHANGED otherThanCanon

SpecCanon == CanonInit /\ [][CanonNext]_vars

NormInit ==
    /\ cHref = <<>> /\ cOut = NoneVal /\ cOut2 = NoneVal /\ cPc = "idle"
    /\ nRaw \in RawImageUrls /\ nOut = <<>> /\ nOut2 = <<>> /\ nPc = "start"
    /\ pSoup = [og |-> NoneVal, els |-> <<>>] /\ pResult = NoneVal /\ pPc = "idle"
    /\ urlsFileExists = FALSE /\ urls = <<>> /\ idx = 0 /\ pc = "idle"
    /\ reqLog = <<>> /\ origSource = NoneVal /\ listResp = <<>> /\ imageTitles = <<>>
    /\ preferred = NoneVal /\ infoUrl = NoneVal /\ imgUrl = NoneVal
    /\ total = 0 /\ files = {} /\ outcomes = <<>> /\ status = -1
    /\ web = [u \in ListingUrls |-> [members |-> {}, others |-> {}, next |-> NoneVal]]
    /\ kPc = "idle" /\ yielded = {} /\ nextLink = NoneVal /\ pageUrl = NoneVal
    /\ allUrls = {} /\ sortedUrls = <<>> /\ kStatus = -1 /\ yieldLog = <<>>
    /\ fetchFailed = FALSE
    /\ rLines = <<>> /\ rHeader = <<>> /\ rRows = <<>>
    /\ rOutHeader = <<>> /\ rOutRows = <<>> /\ rPc = "idle"

\* normalize_image_url(x)
NormalizeImage ==
    /\ nPc = "start"
    /\ nOut' = normalize_image_url(nRaw)
    /\ nPc' = "once"
    /\ UNCHANGED <<nRaw, nOut2>>

\* normalize_image_url(normalize_image_url(x))
RenormalizeImage ==
    /\ nPc = "once"
    /\ nOut2' = normalize_image_url(nOut)
    /\ nPc' = "twice"
    /\ UNCHANGED <<nRaw, nOut>>

NormNext ==
    \/ NormalizeImage /\ UNCHANGED otherThanNorm
    \/ RenormalizeImage /\ UNCHANGED otherThanNorm

SpecNorm == NormInit /\ [][NormNext]_vars

PickInit ==
    /\ cHref = <<>> /\ cOut = NoneVal /\ cOut2 = NoneVal /\ cPc = "idle"
    /\ nRaw = <<>> /\ nOut = <<>> /\ nOut2 = <<>> /\ nPc = "idle"
    /\ pSoup \in Soups /\ pResult = NoneVal /\ pPc = "start"
    /\ urlsFileExists = FALSE /\ urls = <<>> /\ idx = 0 /\ pc = "idle"
    /\ reqLog = <<>> /\ origSource = NoneVal /\ listResp = <<>> /\ imageTitles = <<>>
    /\ preferred = NoneVal /\ infoUrl = NoneVal /\ imgUrl = NoneVal
    /\ total = 0 /\ files = {} /\ outcomes = <<>> /\ status = -1
    /\ web = [u \in ListingUrls |-> [members |-> {}, others |-> {}, next |-> NoneVal]]
    /\ kPc = "idle" /\ yielded = {} /\ nextLink = NoneVal /\ pageUrl = NoneVal
    /\ allUrls = {} /\ sortedUrls = <<>> /\ kStatus = -1 /\ yieldLog = <<>>
    /\ fetchFailed = FALSE
    /\ rLines = <<>> /\ rHeader = <<>> /\ rRows = <<>>
    /\ rOutHeader = <<>> /\ rOutRows = <<>> /\ rPc = "idle"

\* pick_best_image_url(soup) on the fetched page
PickBest ==
    /\ pPc = "start"
    /\ pResult' = pick_best_image_url(pSoup)
    /\ pPc' = "done"
    /\ UNCHANGED pSoup

PickNext == PickBest /\ UNCHANGED otherThanPick

SpecPick == PickInit /\ [][PickNext]_vars

\* C2: canonicalize is idempotent: a non-null result, canonicalized again
\* against the same base, is returned unchanged
C2_CanonicalizeIdempotent == cPc = "twice" => cOut2 = cOut

\* C3: normalize_image_url is idempotent: applied to its own result it
\* returns that result
C3_NormalizeImageIdempotent == nPc = "twice" => nOut2 = nOut

\* C4: a non-null result is an article page: its title, the part of the path
\* after /wiki/, holds no colon
C4_NoNamespaceTitle ==
    (cPc \in {"once", "twice"} /\ cOut # NoneVal)
        => \A i \in 1..Len(PageTitle(cOut)) : PageTitle(cOut)[i] # ":"

\* the first selector whose element has a non-empty src
FirstWithSrc(k) ==
    /\ pSoup.els[k].present /\ ~Falsy(pSoup.els[k].src)
    /\ \A j \in 1..(k - 1) : ~(pSoup.els[j].present /\ ~Falsy(pSoup.els[j].src))

\* C10 as stated: without an Open-Graph image the candidate comes from the
\* first selector that matches an element, and when that element has both
\* data-src and src the candidate is the normalized data-src, whatever src is
C10_LazyLoadAlwaysPreferred ==
    (pPc = "done" /\ Falsy(pSoup.og)) =>
        \A k \in Selectors :
            (/\ pSoup.els[k].present
             /\ \A j \in 1..(k - 1) : ~pSoup.els[j].present
             /\ ~Falsy(pSoup.els[k].src) /\ ~Falsy(pSoup.els[k].dsrc))
            => pResult = normalize_image_url(pSoup.els[k].dsrc)

\* C10, amended: without an Open-Graph image the candidate comes from the
\* first selector whose matched element has a non-empty src; when that
\* element also has a data-src the candidate is the normalized data-src,
\* unless the normalized src ends in .png, which is then the candidate
C10_LazyLoadPreferredUnlessPng ==
    (pPc = "done" /\ Falsy(pSoup.og)) =>
        \A k \in Selectors :
            (FirstWithSrc(k) /\ ~Falsy(pSoup.els[k].dsrc))
            => pResult = IF EndsWithPngCI(normalize_image_url(pSoup.els[k].src))
                         THEN normalize_image_url(pSoup.els[k].src)
                         ELSE normalize_image_url(pSoup.els[k].dsrc)

C10_Witness ==
    /\ pPc = "done" /\ Falsy(pSoup.og)
    /\ pSoup.els[1].present /\ Falsy(pSoup.els[1].src)
    /\ FirstWithSrc(2)
    /\ pSoup.els[2].src = Placeholder /\ pSoup.els[2].dsrc = CdnThumb
    /\ pResult = normalize_image_url(CdnThumb)
    /\ pResult # normalize_image_url(Placeholder)

---------------------------------------------------------------------------
(* The crawl, and the reconciliation *)

CrawlInit ==
    /\ cHref = <<>> /\ cOut = NoneVal /\ cOut2 = NoneVal /\ cPc = "idle"
    /\ nRaw = <<>> /\ nOut = <<>> /\ nOut2 = <<>> /\ nPc = "idle"
    /\ pSoup = [og |-> NoneVal, els |-> <<>>] /\ pResult = NoneVal /\ pPc = "idle"
    /\ urlsFileExists = FALSE /\ urls = <<>> /\ idx = 0 /\ pc = "idle"
    /\ reqLog = <<>> /\ origSource = NoneVal /\ listResp = <<>> /\ imageTitles = <<>>
    /\ preferred = NoneVal /\ infoUrl = NoneVal /\ imgUrl = NoneVal
    /\ total = 0 /\ files = {} /\ outcomes = <<>> /\ status = -1
    /\ web \in Webs
    /\ kPc = "start" /\ yielded = {} /\ nextLink = NoneVal /\ pageUrl = NoneVal
    /\ allUrls = {} /\ sortedUrls = <<>> /\ kStatus = -1 /\ yieldLog = <<>>
    /\ fetchFailed = FALSE
    /\ rLines = <<>> /\ rHeader = <<>> /\ rRows = <<>>
    /\ rOutHeader = <<>> /\ rOutRows = <<>> /\ rPc = "idle"

CrawlNext ==
    \/ \E ok \in BOOLEAN : FetchCategory(ok) /\ UNCHANGED otherThanCrawl
    \/ \E ok \in BOOLEAN : ProcessPage(ok) /\ UNCHANGED otherThanCrawl
    \/ \E ok \in BOOLEAN : ResumeGenerator(ok) /\ UNCHANGED otherThanCrawl
    \/ WriteUrls /\ UNCHANGED otherThanCrawl

\* the run is a sequential program: it takes its next step whenever it has one
SpecCrawl == CrawlInit /\ [][CrawlNext]_vars /\ WF_vars(CrawlNext)

\* the pages of the pagination chain from url u, walking next-page links
\* until one is missing or leads to a page already in the chain
RECURSIVE Chain(_, _)
Chain(u, seen) ==
    LET n == web[u].next
        v == IF n = NoneVal THEN u ELSE UrlJoin(CATEGORY_URL, n)
    IN  IF n = NoneVal \/ v \in seen \cup {u} THEN seen \cup {u}
        ELSE Chain(v, seen \cup {u})

Distinct(s) == \A i, j \in 1..Len(s) : i # j => s[i] # s[j]

\* C6: when every listing page fetch succeeds, the written result lists,
\* without duplicates, exactly the union over the pages of the pagination
\* chain of the canonical urls extracted from each page
C6_ResultIsUnionOfPages ==
    (kPc = "done" /\ kStatus = 0 /\ ~fetchFailed) =>
        LET expected == UNION {extract_member_links(web[u], u) :
                                  u \in Chain(CATEGORY_URL, {})}
        IN  /\ Range(sortedUrls) = expected
            /\ Distinct(sortedUrls)
            /\ Len(sortedUrls) = Cardinality(expected)

\* a finished crawl of two or more pages that share a member link
C6_Witness ==
    /\ kPc = "done" /\ kStatus = 0 /\ ~fetchFailed
    /\ Len(yieldLog) >= 2
    /\ \E i, j \in 1..Len(yieldLog) :
          /\ i # j
          /\ extract_member_links(web[yieldLog[i]], yieldLog[i])
                \cap extract_member_links(web[yieldLog[j]], yieldLog[j]) # {}
          /\ ~(extract_member_links(web[yieldLog[i]], yieldLog[i])
                \subseteq extract_member_links(web[yieldLog[j]], yieldLog[j]))
    /\ Len(sortedUrls) > 2

\* C9: the pagination walk ends, also on a cycle of next-page links, and no
\* listing url is yielded for extraction more than once
C9_WalkTerminates == [](Distinct(yieldLog)) /\ <>(kPc = "done")

\* a finished crawl whose last page links back to a page already yielded
C9_Witness ==
    /\ kPc = "done" /\ kStatus = 0
    /\ Len(yieldLog) >= 2
    /\ nextLink # NoneVal
    /\ UrlJoin(CATEGORY_URL, nextLink) \in yielded

ReconcileInit ==
    /\ cHref = <<>> /\ cOut = NoneVal /\ cOut2 = NoneVal /\ cPc = "idle"
    /\ nRaw = <<>> /\ nOut = <<>> /\ nOut2 = <<>> /\ nPc = "idle"
    /\ pSoup = [og |-> NoneVal, els |-> <<>>] /\ pResult = NoneVal /\ pPc = "idle"
    /\ urlsFileExists = FALSE /\ urls = <<>> /\ idx = 0 /\ pc = "idle"
    /\ reqLog = <<>> /\ origSource = NoneVal /\ listResp = <<>> /\ imageTitles = <<>>
    /\ preferred = NoneVal /\ infoUrl = NoneVal /\ imgUrl = NoneVal
    /\ total = 0 /\ files = {} /\ outcomes = <<>> /\ status = -1
    /\ web = [u \in ListingUrls |-> [members |-> {}, others |-> {}, next |-> NoneVal]]
    /\ kPc = "idle" /\ yielded = {} /\ nextLink = NoneVal /\ pageUrl = NoneVal
    /\ allUrls = {} /\ sortedUrls = <<>> /\ kStatus = -1 /\ yieldLog = <<>>
    /\ fetchFailed = FALSE
    /\ rLines \in SeqUpTo(UrlLines, MaxLines)
    /\ rHeader \in Headers
    /\ rRows \in SeqUpTo(RowsOf(rHeader), MaxRows)
    /\ rOutHeader = <<>> /\ rOutRows = <<>> /\ rPc = "start"

ReconcileNext == ReconcileMain /\ UNCHANGED otherThanReconcile

SpecReconcile == ReconcileInit /\ [][ReconcileNext]_vars

\* the lines of boss_urls.txt that give the page of record i
LinesFor(i) ==
    {k \in 1..Len(rLines) :
        LineTitle(rLines[k]) = normalize_name_to_page(RowName(rRows[i]))}

\* C8: the output has the input's records in order, every field other than
\* url unchanged, and each url is the one mapped from the record's normalized
\* name (the last such line of the mapping), or the empty string
C8_OnlyUrlChanges ==
    rPc = "done" =>
        /\ Len(rOutRows) = Len(rRows)
        /\ \A i \in 1..Len(rRows) :
              /\ DOMAIN rOutRows[i] = DOMAIN rRows[i] \cup {"url"}
              /\ \A f \in DOMAIN rRows[i] \ {"url"} : rOutRows[i][f] = rRows[i][f]
              /\ rOutRows[i].url # NoneVal
              /\ IF LinesFor(i) = {} THEN rOutRows[i].url = <<>>
                 ELSE rOutRows[i].url =
                          Strip(rLines[CHOOSE k \in LinesFor(i) :
                                          \A m \in LinesFor(i) : m <= k], {" "})

\* a reconciliation where one record is mapped and another, which had a url,
\* has no page in the mapping
C8_Witness ==
    /\ rPc = "done"
    /\ Len(rRows) = 2
    /\ \E i, j \in 1..Len(rRows) :
          /\ LinesFor(i) # {} /\ rOutRows[i].url # <<>>
          /\ LinesFor(j) = {} /\ "url" \in DOMAIN rRows[j] /\ rRows[j].url # <<>>
          /\ rOutRows[j].url = <<>>

===========================================================================
